---- MODULE Spec2Model ----
(***************************************************************************)
(* Model of CourseBot (src/main.py): the quality resolver                  *)
(* get_preferred_video_url and the document generator                      *)
(* generate_formatted_text_file.                                           *)
(*                                                                         *)
(* Python strings are sequences of one-character strings, so that lower(), *)
(* upper(), startswith(), zfill(), the regular expression (\d+) and the    *)
(* lexical comparison of the sort are computed character by character.     *)
(***************************************************************************)
EXTENDS Integers, Sequences, FiniteSets, TLC

VARIABLES
    pc,                 \* position of the call under study
    class_data,         \* argument of get_preferred_video_url
    preferred_quality,  \* requested quality
    video_url,          \* value returned by get_preferred_video_url
    classes_data,       \* argument of generate_formatted_text_file
    practice_sheets,    \* argument of generate_formatted_text_file
    all_classes,        \* the sorted class list of generate_formatted_text_file
    lines,              \* the document built by generate_formatted_text_file
    user_preferences,   \* self.user_preferences: user id -> quality
    available_courses,  \* self.available_courses
    user_data,          \* context.user_data of each user
    outbox,             \* the messages the last handler sent, and to whom
    chosen              \* history: the last quality each user chose by button

callvars == <<pc, class_data, preferred_quality, video_url,
              classes_data, practice_sheets, all_classes, lines>>

botvars == <<user_preferences, available_courses, user_data, outbox, chosen>>

vars == <<pc, class_data, preferred_quality, video_url,
          classes_data, practice_sheets, all_classes, lines,
          user_preferences, available_courses, user_data, outbox, chosen>>

-----------------------------------------------------------------------------
(* Bounds *)

MaxRecs == 2
MaxTopics == 2
MaxClasses == 2
MaxTitleLen == 3
MaxSheets == 3

-----------------------------------------------------------------------------
(* Python values *)

\* Python's None: a one-token sequence that is no string of characters.
None == <<"None">>

\* None where a dict is expected.
NoSheets == [None |-> TRUE]

\* Truth value of an optional string: None and the empty string are false.
Truthy(x) == x # None /\ x # <<>>

\* Truth value of a list: the empty list is false.
TruthyList(x) == Len(x) > 0

\* dict.get(key, default): a dict is a record, a missing key a missing field.
Get(d, key, default) == IF key \in DOMAIN d THEN d[key] ELSE default

LowerLetters ==
    <<"a", "b", "c", "d", "e", "f", "g", "h", "i", "j", "k", "l", "m",
      "n", "o", "p", "q", "r", "s", "t", "u", "v", "w", "x", "y", "z">>

UpperLetters ==
    <<"A", "B", "C", "D", "E", "F", "G", "H", "I", "J", "K", "L", "M",
      "N", "O", "P", "Q", "R", "S", "T", "U", "V", "W", "X", "Y", "Z">>

\* str.lower() and str.upper() of one ASCII character, as tables.
LowerOf ==
    [c \in {UpperLetters[i] : i \in 1..Len(UpperLetters)} |->
        LowerLetters[CHOOSE i \in 1..Len(UpperLetters) : UpperLetters[i] = c]]

UpperOf ==
    [c \in {LowerLetters[i] : i \in 1..Len(LowerLetters)} |->
        UpperLetters[CHOOSE i \in 1..Len(LowerLetters) : LowerLetters[i] = c]]

LowerChar(c) == IF c \in DOMAIN LowerOf THEN LowerOf[c] ELSE c

UpperChar(c) == IF c \in DOMAIN UpperOf THEN UpperOf[c] ELSE c

Lower(s) == [i \in 1..Len(s) |-> LowerChar(s[i])]

\* str.startswith(prefix)
StartsWith(s, p) == Len(s) >= Len(p) /\ SubSeq(s, 1, Len(p)) = p

HttpPrefix == <<"h", "t", "t", "p", ":", "/", "/">>
HttpsPrefix == <<"h", "t", "t", "p", "s", ":", "/", "/">>

\* str.startswith(('http://', 'https://'))
StartsWithHttp(s) == StartsWith(s, HttpPrefix) \/ StartsWith(s, HttpsPrefix)

-----------------------------------------------------------------------------
(* get_preferred_video_url *)

quality_priority ==
    << <<"1", "0", "8", "0", "p">>,
       <<"7", "2", "0", "p">>,
       <<"4", "8", "0", "p">>,
       <<"3", "6", "0", "p">>,
       <<"2", "4", "0", "p">> >>

\* recording.get('quality', '').lower()
RecQuality(recording) == Lower(Get(recording, "quality", <<>>))

\* Index of the first recording of the list with the given lowered quality,
\* 0 when there is none (the inner "for recording in mp4_recordings" loops).
FirstRecordingWith(mp4_recordings, q) ==
    IF \E i \in 1..Len(mp4_recordings) : RecQuality(mp4_recordings[i]) = q
    THEN CHOOSE i \in 1..Len(mp4_recordings) :
            /\ RecQuality(mp4_recordings[i]) = q
            /\ \A j \in 1..(i - 1) : RecQuality(mp4_recordings[j]) # q
    ELSE 0

\* list.index(): position of q in the ladder, 0 when absent.
PriorityIndex(q) ==
    IF \E i \in 1..Len(quality_priority) : quality_priority[i] = q
    THEN CHOOSE i \in 1..Len(quality_priority) : quality_priority[i] = q
    ELSE 0

\* The exact-match loop: index of the recording it returns, 0 when it ends.
ExactMatchNoLower(mp4_recordings, quality) ==
    IF \E i \in 1..Len(mp4_recordings) :
           Get(mp4_recordings[i], "quality", <<>>) = quality
    THEN CHOOSE i \in 1..Len(mp4_recordings) :
            /\ Get(mp4_recordings[i], "quality", <<>>) = quality
            /\ \A j \in 1..(i - 1) :
                   Get(mp4_recordings[j], "quality", <<>>) # quality
    ELSE 0

ExactMatch(mp4_recordings, quality) ==
    FirstRecordingWith(mp4_recordings, Lower(quality))

\* The ladder walk from pref_index downward: index of the recording it
\* returns, 0 when the requested quality is not in the ladder or the walk ends.
ClosestQualityUpward(mp4_recordings, quality) ==
    LET pref_index == PriorityIndex(Lower(quality))
        hit(i) == FirstRecordingWith(mp4_recordings, quality_priority[i]) # 0
    IN  IF pref_index = 0 THEN 0
        ELSE IF \E i \in 1..pref_index : hit(i)
             THEN FirstRecordingWith(mp4_recordings,
                      quality_priority[CHOOSE i \in 1..pref_index :
                          hit(i) /\ \A j \in (i + 1)..pref_index : ~hit(j)])
             ELSE 0

ClosestQuality(mp4_recordings, quality) ==
    LET pref_index == PriorityIndex(Lower(quality))
        n == Len(quality_priority)
        hit(i) == FirstRecordingWith(mp4_recordings, quality_priority[i]) # 0
    IN  IF pref_index = 0 THEN 0
        ELSE IF \E i \in pref_index..n : hit(i)
             THEN FirstRecordingWith(mp4_recordings,
                      quality_priority[CHOOSE i \in pref_index..n :
                          hit(i) /\ \A j \in pref_index..(i - 1) : ~hit(j)])
             ELSE 0

\* The class_link fallback (lines 529-532 and 554-558).
ClassLinkNoCheck(cd) ==
    LET class_link == Get(cd, "class_link", None)
    IN  IF Truthy(class_link) THEN class_link ELSE None

ClassLink(cd) ==
    LET class_link == Get(cd, "class_link", None)
    IN  IF Truthy(class_link) /\ StartsWithHttp(class_link)
        THEN class_link
        ELSE None

\* Index of the recording whose url the function returns, 0 when it returns
\* the class_link fallback.
PreferredIndexNoLastResort(cd, quality) ==
    LET mp4_recordings == Get(cd, "mp4Recordings", <<>>)
    IN  IF ~TruthyList(mp4_recordings) THEN 0
        ELSE IF ExactMatch(mp4_recordings, quality) # 0
             THEN ExactMatch(mp4_recordings, quality)
        ELSE ClosestQuality(mp4_recordings, quality)

PreferredIndexLast(cd, quality) ==
    LET mp4_recordings == Get(cd, "mp4Recordings", <<>>)
    IN  IF ~TruthyList(mp4_recordings) THEN 0
        ELSE IF ExactMatch(mp4_recordings, quality) # 0
             THEN ExactMatch(mp4_recordings, quality)
        ELSE IF ClosestQuality(mp4_recordings, quality) # 0
             THEN ClosestQuality(mp4_recordings, quality)
        ELSE Len(mp4_recordings)

PreferredIndex(cd, quality) ==
    LET mp4_recordings == Get(cd, "mp4Recordings", <<>>)
    IN  IF ~TruthyList(mp4_recordings) THEN 0
        ELSE IF ExactMatch(mp4_recordings, quality) # 0
             THEN ExactMatch(mp4_recordings, quality)
        ELSE IF ClosestQuality(mp4_recordings, quality) # 0
             THEN ClosestQuality(mp4_recordings, quality)
        ELSE 1

get_preferred_video_url(cd, quality) ==
    LET mp4_recordings == Get(cd, "mp4Recordings", <<>>)
        k == PreferredIndex(cd, quality)
    IN  IF k = 0 THEN ClassLink(cd) ELSE mp4_recordings[k].url

-----------------------------------------------------------------------------
(* generate_formatted_text_file *)

\* An empty dict, the default of pdf.get('category', {}).
EmptyDict == <<>>

Digits == {"0", "1", "2", "3", "4", "5", "6", "7", "8", "9"}

\* The ASCII characters in use, in code point order (the order of str
\* comparison).
CodeOrder ==
    <<" ", "/", "0", "1", "2", "3", "4", "5", "6", "7", "8", "9", ":", "?">>
        \o UpperLetters \o LowerLetters

OrdOf ==
    [c \in {CodeOrder[i] : i \in 1..Len(CodeOrder)} |->
        CHOOSE i \in 1..Len(CodeOrder) : CodeOrder[i] = c]

Ord(c) == OrdOf[c]

Upper(s) == [i \in 1..Len(s) |-> UpperChar(s[i])]

\* re.search(r'(\d+)', s).group(1): the leftmost, longest run of digits;
\* None when s has no digit.
SearchDigitsShortest(s) ==
    IF \A i \in 1..Len(s) : s[i] \notin Digits THEN None
    ELSE LET first == CHOOSE i \in 1..Len(s) :
                        s[i] \in Digits /\ \A j \in 1..(i - 1) : s[j] \notin Digits
         IN  SubSeq(s, first, first)

SearchDigits(s) ==
    IF \A i \in 1..Len(s) : s[i] \notin Digits THEN None
    ELSE LET first == CHOOSE i \in 1..Len(s) :
                        s[i] \in Digits /\ \A j \in 1..(i - 1) : s[j] \notin Digits
             last == CHOOSE j \in first..Len(s) :
                        /\ \A k \in first..j : s[k] \in Digits
                        /\ (j = Len(s) \/ s[j + 1] \notin Digits)
         IN  SubSeq(s, first, last)

\* str.zfill(width) of a string of digits.
ZfillNone(s, width) == s

Zfill(s, width) ==
    IF Len(s) >= width THEN s
    ELSE [i \in 1..(width - Len(s)) |-> "0"] \o s

\* Lines 581-585: the class number of a title.
ClassNumber(class_title) ==
    IF Len(class_title) > 0 /\ SearchDigits(class_title) # None
    THEN Zfill(SearchDigits(class_title), 2)
    ELSE <<"0", "1">>

UnknownTopic ==
    <<"U", "n", "k", "n", "o", "w", "n", " ", "T", "o", "p", "i", "c">>
UnknownTeacher ==
    <<"U", "n", "k", "n", "o", "w", "n", " ", "T", "e", "a", "c", "h", "e", "r">>
UnknownPDF == <<"U", "n", "k", "n", "o", "w", "n", " ", "P", "D", "F">>

\* Lines 591-601: the PDFs of a class whose url starts with http(s).
RECURSIVE ClassPdfs(_, _)
ClassPdfs(class_pdfs, teacher_name) ==
    IF class_pdfs = <<>> THEN <<>>
    ELSE LET pdf == Head(class_pdfs)
             pdf_url == Get(pdf, "url", None)
             pdf_name == Get(pdf, "name", UnknownPDF)
         IN  (IF Truthy(pdf_url) /\ StartsWithHttp(pdf_url)
              THEN << [name |-> pdf_name, url |-> pdf_url,
                       teacher |-> teacher_name] >>
              ELSE <<>>)
             \o ClassPdfs(Tail(class_pdfs), teacher_name)

\* Lines 576-611: the entry appended to all_classes for one class record,
\* as a list of zero or one entries.
ClassEntry(topic_name, cd, quality) ==
    LET class_title == Get(cd, "title", <<>>)
        teacher_name == Get(cd, "teacherName", UnknownTeacher)
        url == get_preferred_video_url(cd, quality)
    IN  IF Truthy(url)
        THEN << [class_number |-> ClassNumber(class_title),
                 class_title |-> class_title,
                 teacher_name |-> teacher_name,
                 topic_name |-> topic_name,
                 video_url |-> url,
                 pdfs |-> ClassPdfs(Get(cd, "classPdf", <<>>), teacher_name)] >>
        ELSE <<>>

RECURSIVE TopicEntries(_, _, _)
TopicEntries(topic_name, topic_classes, quality) ==
    IF topic_classes = <<>> THEN <<>>
    ELSE ClassEntry(topic_name, Head(topic_classes), quality)
            \o TopicEntries(topic_name, Tail(topic_classes), quality)

\* Lines 572-611: all_classes before the sort.
RECURSIVE CollectClasses(_, _)
CollectClasses(topics, quality) ==
    IF topics = <<>> THEN <<>>
    ELSE LET topic == Head(topics)
         IN  TopicEntries(Get(topic, "topicName", UnknownTopic),
                          Get(topic, "classes", <<>>), quality)
                \o CollectClasses(Tail(topics), quality)

\* Python's < on str: lexical by code point, a proper prefix is smaller.
RECURSIVE StrLess(_, _)
StrLess(a, b) ==
    IF b = <<>> THEN FALSE
    ELSE IF a = <<>> THEN TRUE
    ELSE IF Head(a) # Head(b) THEN Ord(Head(a)) < Ord(Head(b))
    ELSE StrLess(Tail(a), Tail(b))

\* Python's < on the sort key (x['topic_name'], x['class_number']).
KeyLessNumberOnly(x, y) == StrLess(x.class_number, y.class_number)

KeyLess(x, y) ==
    \/ StrLess(x.topic_name, y.topic_name)
    \/ x.topic_name = y.topic_name /\ StrLess(x.class_number, y.class_number)

\* list.sort(key=...): a stable sort; each entry goes behind the entries
\* that are not greater than it.
RECURSIVE InsertSorted(_, _)
InsertSorted(sorted, x) ==
    IF sorted = <<>> THEN <<x>>
    ELSE IF KeyLess(x, Head(sorted)) THEN <<x>> \o sorted
    ELSE <<Head(sorted)>> \o InsertSorted(Tail(sorted), x)

RECURSIVE SortClasses(_)
SortClasses(s) ==
    IF s = <<>> THEN <<>>
    ELSE InsertSorted(SortClasses(SubSeq(s, 1, Len(s) - 1)), s[Len(s)])

RECURSIVE PdfLines(_)
PdfLines(pdfs) ==
    IF pdfs = <<>> THEN <<>>
    ELSE << [kind |-> "pdf", name |-> Head(pdfs).name, url |-> Head(pdfs).url] >>
            \o PdfLines(Tail(pdfs))

\* Lines 619-640: the lines of the classes from position i on.
RECURSIVE ClassLines(_, _, _)
ClassLines(classes, i, current_topic) ==
    IF i > Len(classes) THEN <<>>
    ELSE LET class_info == classes[i]
             header ==
                IF class_info.topic_name # current_topic
                THEN (IF current_topic # None
                      THEN << [kind |-> "blank"] >> ELSE <<>>)
                     \o << [kind |-> "topic",
                            text |-> Upper(class_info.topic_name)],
                           [kind |-> "rule40"] >>
                ELSE <<>>
             body ==
                << [kind |-> "class",
                    number |-> class_info.class_number,
                    title |-> class_info.class_title,
                    teacher |-> class_info.teacher_name],
                   [kind |-> "video", url |-> class_info.video_url] >>
             pdfs ==
                IF class_info.pdfs # <<>>
                THEN << [kind |-> "class_pdfs"] >> \o PdfLines(class_info.pdfs)
                ELSE <<>>
         IN  header \o body \o pdfs \o << [kind |-> "blank"] >>
                \o ClassLines(classes, i + 1, class_info.topic_name)

Unknown == <<"U", "n", "k", "n", "o", "w", "n">>
Untitled == <<"U", "n", "t", "i", "t", "l", "e", "d">>

\* pdf.get('category', {}).get('categoryName', 'Unknown')
CategoryName(pdf) == Get(Get(pdf, "category", EmptyDict), "categoryName", Unknown)

\* Lines 651-656: the keys of practice_by_category in insertion order.
RECURSIVE CategoryOrder(_, _)
CategoryOrder(pdfs, seen) ==
    IF pdfs = <<>> THEN <<>>
    ELSE LET category_name == CategoryName(Head(pdfs))
         IN  IF category_name \in seen
             THEN CategoryOrder(Tail(pdfs), seen)
             ELSE <<category_name>>
                    \o CategoryOrder(Tail(pdfs), seen \cup {category_name})

\* practice_by_category[category_name]
RECURSIVE CategoryPdfsNewestFirst(_, _)
CategoryPdfsNewestFirst(pdfs, category_name) ==
    IF pdfs = <<>> THEN <<>>
    ELSE CategoryPdfsNewestFirst(Tail(pdfs), category_name)
            \o (IF CategoryName(Head(pdfs)) = category_name
                THEN <<Head(pdfs)>> ELSE <<>>)

RECURSIVE CategoryPdfs(_, _)
CategoryPdfs(pdfs, category_name) ==
    IF pdfs = <<>> THEN <<>>
    ELSE (IF CategoryName(Head(pdfs)) = category_name
          THEN <<Head(pdfs)>> ELSE <<>>)
            \o CategoryPdfs(Tail(pdfs), category_name)

\* Lines 662-667
RECURSIVE SheetLines(_, _)
SheetLines(pdfs, i) ==
    IF i > Len(pdfs) THEN <<>>
    ELSE LET pdf == pdfs[i]
         IN  << [kind |-> "sheet", number |-> i,
                 title |-> Get(pdf, "title", Untitled)],
                [kind |-> "sheet_teacher",
                 text |-> Get(pdf, "teacherName", Unknown)],
                [kind |-> "sheet_topic",
                 text |-> Get(pdf, "topic_name", Unknown)],
                [kind |-> "sheet_url", url |-> Get(pdf, "uploadPdf", None)],
                [kind |-> "blank"] >>
                \o SheetLines(pdfs, i + 1)

\* Lines 658-667
RECURSIVE CategoryLines(_, _)
CategoryLines(pdfs, order) ==
    IF order = <<>> THEN <<>>
    ELSE << [kind |-> "category", text |-> Upper(Head(order))],
            [kind |-> "rule40"] >>
            \o SheetLines(CategoryPdfs(pdfs, Head(order)), 1)
            \o CategoryLines(pdfs, Tail(order))

\* Lines 642-667: the practice sheets section.
PracticeLines(sheets) ==
    IF sheets # NoSheets /\ TruthyList(Get(sheets, "pdfs", <<>>))
    THEN LET practice_pdfs == Get(sheets, "pdfs", <<>>)
         IN  << [kind |-> "rule60"], [kind |-> "practice_sheets"],
                [kind |-> "rule60"] >>
                \o CategoryLines(practice_pdfs, CategoryOrder(practice_pdfs, {}))
    ELSE <<>>

\* Line 614: all_classes after the sort.
SortedClasses(topics, quality) == SortClasses(CollectClasses(topics, quality))

\* The document as the list of its lines; the timestamp line carries no value.
generate_formatted_text_file(topics, quality, sheets) ==
    << [kind |-> "banner"], [kind |-> "rule60"] >>
        \o ClassLines(SortedClasses(topics, quality), 1, None)
        \o PracticeLines(sheets)
        \o << [kind |-> "rule60"],
              [kind |-> "quality", text |-> Upper(quality)],
              [kind |-> "generated"],
              [kind |-> "rule60"] >>

-----------------------------------------------------------------------------
(* The text of the lines of a class, lines 629-637 *)

\* The characters outside ASCII are single elements named by code point.
ClassDash == <<"C", "l", "a", "s", "s", "-">>
VideoLabel == <<"U+1F3A5", " ", "V", "i", "d", "e", "o", ":", " ">>
ClassPdfsLabel ==
    <<"U+1F4CE", " ", "C", "l", "a", "s", "s", " ", "P", "D", "F", "s", ":">>

\* The f-strings of lines 629, 631, 635 and 637; the empty string for a
\* blank line.
LineText(l) ==
    CASE l.kind = "class" ->
            ClassDash \o l.number \o <<" ", "|", "|", " ">> \o l.title
                \o <<" ", "|", " ">> \o l.teacher
      [] l.kind = "video" -> VideoLabel \o l.url
      [] l.kind = "class_pdfs" -> ClassPdfsLabel
      [] l.kind = "pdf" ->
            <<" ", " ", "U+2022", " ">> \o l.name \o <<":", " ">> \o l.url
      [] OTHER -> <<>>

-----------------------------------------------------------------------------
(* The Text Corpus Parser of the specification, section 4.2 *)

\* Position of the first occurrence of sub in s from position from on, 0 when
\* there is none.
IndexFrom(s, sub, from) ==
    LET hits == {i \in from..(Len(s) - Len(sub) + 1) :
                    SubSeq(s, i, i + Len(sub) - 1) = sub}
    IN  IF hits = {} THEN 0
        ELSE CHOOSE i \in hits : \A j \in hits : i <= j

Contains(s, sub) == IndexFrom(s, sub, 1) # 0

DoubleBar == <<"|", "|">>
UrlMarker == <<":", " ">> \o HttpsPrefix

\* The text with the blanks at both ends removed.
RECURSIVE Strip(_)
Strip(s) ==
    IF s = <<>> THEN s
    ELSE IF Head(s) = " " THEN Strip(Tail(s))
    ELSE IF s[Len(s)] = " " THEN Strip(SubSeq(s, 1, Len(s) - 1))
    ELSE s

\* The digits at the start of a text.
RECURSIVE LeadingDigits(_)
LeadingDigits(s) ==
    IF s = <<>> \/ Head(s) \notin Digits THEN <<>>
    ELSE <<Head(s)>> \o LeadingDigits(Tail(s))

\* A video line: "Class-<token> || <anything> || <topic> | <rest> : <url
\* starting with https://>".
IsVideoLine(line) ==
    LET first == IndexFrom(line, DoubleBar, 1)
        second == IF first = 0 THEN 0 ELSE IndexFrom(line, DoubleBar, first + 2)
    IN  /\ StartsWith(line, ClassDash)
        /\ second # 0
        /\ IndexFrom(line, UrlMarker, second + 2) # 0

\* The class number is the leading digits after "Class-", the topic the first
\* "|" segment of the third "||" field, the url what follows ": https://".
ParseVideoLine(line) ==
    LET first == IndexFrom(line, DoubleBar, 1)
        second == IndexFrom(line, DoubleBar, first + 2)
        third == SubSeq(line, second + 2, Len(line))
        bar == IndexFrom(third, <<"|">>, 1)
        marker == IndexFrom(line, UrlMarker, second + 2)
    IN  [classNumber |-> LeadingDigits(SubSeq(line, Len(ClassDash) + 1, Len(line))),
         topicName |-> Strip(IF bar = 0 THEN third ELSE SubSeq(third, 1, bar - 1)),
         url |-> HttpsPrefix
                    \o SubSeq(line, marker + Len(UrlMarker), Len(line)),
         pdfs |-> <<>>]

\* A PDF line: starts with "http" and contains "pdf", or contains
\* "pdfs/files/".
IsPdfLine(line) ==
    \/ StartsWith(line, <<"h", "t", "t", "p">>) /\ Contains(line, <<"p", "d", "f">>)
    \/ Contains(line, <<"p", "d", "f", "s", "/", "f", "i", "l", "e", "s", "/">>)

\* The url of a PDF line: the text from "http" on.
PdfLineUrl(line) ==
    LET at == IndexFrom(line, <<"h", "t", "t", "p">>, 1)
    IN  IF at = 0 THEN line ELSE SubSeq(line, at, Len(line))

\* The parser as a machine with the states Idle and OpenVideoEntry: entry is
\* the open video entry when open is true.
RECURSIVE ParseLines(_, _, _)
ParseLines(text, open, entry) ==
    IF text = <<>> THEN (IF open THEN <<entry>> ELSE <<>>)
    ELSE LET line == Head(text)
         IN  IF Strip(line) = <<>> THEN ParseLines(Tail(text), open, entry)
             ELSE IF IsVideoLine(line)
             THEN (IF open THEN <<entry>> ELSE <<>>)
                    \o ParseLines(Tail(text), TRUE, ParseVideoLine(line))
             ELSE IF open /\ IsPdfLine(line)
             THEN << [entry EXCEPT !.pdfs = <<PdfLineUrl(line)>>] >>
                    \o ParseLines(Tail(text), FALSE, entry)
             ELSE ParseLines(Tail(text), open, entry)

NoEntry == [classNumber |-> <<>>, topicName |-> <<>>, url |-> <<>>, pdfs |-> <<>>]

ParseText(text) == ParseLines(text, FALSE, NoEntry)

-----------------------------------------------------------------------------
(* format_by_category *)

\* Lines 457-461
RECURSIVE CategorySheetLines(_, _)
CategorySheetLines(pdfs, i) ==
    IF i > Len(pdfs) THEN <<>>
    ELSE LET pdf == pdfs[i]
         IN  << [kind |-> "sheet", number |-> i,
                 title |-> Get(pdf, "title", Untitled)],
                [kind |-> "sheet_teacher",
                 text |-> Get(pdf, "teacherName", Unknown)],
                [kind |-> "sheet_url", url |-> Get(pdf, "uploadPdf", None)],
                [kind |-> "blank"] >>
                \o CategorySheetLines(pdfs, i + 1)

\* Lines 453-461; the grouping of lines 446-451 is that of lines 651-656.
RECURSIVE ByCategoryLines(_, _)
ByCategoryLines(pdfs, order) ==
    IF order = <<>> THEN <<>>
    ELSE LET group == CategoryPdfs(pdfs, Head(order))
         IN  << [kind |-> "category", text |-> Upper(Head(order)),
                 count |-> Len(group)],
                [kind |-> "rule40"] >>
                \o CategorySheetLines(group, 1)
                \o ByCategoryLines(pdfs, Tail(order))

format_by_category(sheets) ==
    LET pdfs == Get(sheets, "pdfs", <<>>)
    IN  << [kind |-> "by_category"], [kind |-> "rule50"] >>
            \o ByCategoryLines(pdfs, CategoryOrder(pdfs, {}))

-----------------------------------------------------------------------------
(* The other formats of sheets_callback *)

UnknownCourse ==
    <<"U", "n", "k", "n", "o", "w", "n", " ", "C", "o", "u", "r", "s", "e">>
NoURL == <<"N", "o", " ", "U", "R", "L">>

\* Lines 429-436
RECURSIVE AllSheetLines(_, _)
AllSheetLines(pdfs, i) ==
    IF i > Len(pdfs) THEN <<>>
    ELSE LET pdf == pdfs[i]
         IN  << [kind |-> "sheet", number |-> i,
                 title |-> Get(pdf, "title", Untitled)],
                [kind |-> "sheet_topic",
                 text |-> Get(pdf, "topic_name", Unknown)],
                [kind |-> "sheet_category", text |-> CategoryName(pdf)],
                [kind |-> "sheet_section",
                 text |-> Get(Get(pdf, "section", EmptyDict), "sectionName", Unknown)],
                [kind |-> "sheet_teacher",
                 text |-> Get(pdf, "teacherName", Unknown)],
                [kind |-> "sheet_url", url |-> Get(pdf, "uploadPdf", NoURL)],
                [kind |-> "blank"] >>
                \o AllSheetLines(pdfs, i + 1)

format_all_sheets(sheets) ==
    << [kind |-> "all_sheets"], [kind |-> "rule50"] >>
        \o AllSheetLines(Get(sheets, "pdfs", <<>>), 1)

\* Lines 470-474: the sheets whose lowered category name contains 'math'.
RECURSIVE MathsPdfs(_)
MathsPdfs(pdfs) ==
    IF pdfs = <<>> THEN <<>>
    ELSE LET category_name ==
                Get(Get(Head(pdfs), "category", EmptyDict), "categoryName", <<>>)
         IN  (IF \/ Contains(Lower(category_name), <<"m", "a", "t", "h">>)
                 \/ Contains(Lower(category_name), <<"m", "a", "t", "h", "s">>)
              THEN <<Head(pdfs)>> ELSE <<>>)
                \o MathsPdfs(Tail(pdfs))

\* pdf.get('topic', {}).get('topicName', 'Unknown')
MathsTopicName(pdf) == Get(Get(pdf, "topic", EmptyDict), "topicName", Unknown)

\* Lines 481-486: the keys of topics in insertion order, and topics[name].
RECURSIVE MathsTopicOrder(_, _)
MathsTopicOrder(pdfs, seen) ==
    IF pdfs = <<>> THEN <<>>
    ELSE LET topic_name == MathsTopicName(Head(pdfs))
         IN  IF topic_name \in seen
             THEN MathsTopicOrder(Tail(pdfs), seen)
             ELSE <<topic_name>>
                    \o MathsTopicOrder(Tail(pdfs), seen \cup {topic_name})

RECURSIVE MathsTopicPdfs(_, _)
MathsTopicPdfs(pdfs, topic_name) ==
    IF pdfs = <<>> THEN <<>>
    ELSE (IF MathsTopicName(Head(pdfs)) = topic_name
          THEN <<Head(pdfs)>> ELSE <<>>)
            \o MathsTopicPdfs(Tail(pdfs), topic_name)

\* Lines 488-496
RECURSIVE MathsLines(_, _)
MathsLines(pdfs, order) ==
    IF order = <<>> THEN <<>>
    ELSE LET group == MathsTopicPdfs(pdfs, Head(order))
         IN  << [kind |-> "sheet_topic_header", text |-> Upper(Head(order)),
                 count |-> Len(group)],
                [kind |-> "rule40"] >>
                \o CategorySheetLines(group, 1)
                \o MathsLines(pdfs, Tail(order))

format_maths_only(sheets) ==
    LET maths_pdfs == MathsPdfs(Get(sheets, "pdfs", <<>>))
    IN  << [kind |-> "maths_sheets"], [kind |-> "rule50"] >>
            \o (IF maths_pdfs = <<>>
                THEN << [kind |-> "no_maths"] >>
                ELSE MathsLines(maths_pdfs, MathsTopicOrder(maths_pdfs, {})))

\* Lines 514-519
RECURSIVE TopicSheetLines(_, _)
TopicSheetLines(pdfs, i) ==
    IF i > Len(pdfs) THEN <<>>
    ELSE LET pdf == pdfs[i]
         IN  << [kind |-> "sheet", number |-> i,
                 title |-> Get(pdf, "title", Untitled)],
                [kind |-> "sheet_category", text |-> CategoryName(pdf)],
                [kind |-> "sheet_teacher",
                 text |-> Get(pdf, "teacherName", Unknown)],
                [kind |-> "sheet_url", url |-> Get(pdf, "uploadPdf", None)],
                [kind |-> "blank"] >>
                \o TopicSheetLines(pdfs, i + 1)

\* Lines 507-519
RECURSIVE ByTopicLines(_)
ByTopicLines(topics_data) ==
    IF topics_data = <<>> THEN <<>>
    ELSE LET topic_data == Head(topics_data)
             pdfs == Get(topic_data, "pdfs", <<>>)
         IN  << [kind |-> "sheet_topic_header",
                 text |-> Upper(Get(topic_data, "topicName", UnknownTopic)),
                 count |-> Len(pdfs)],
                [kind |-> "rule40"] >>
                \o TopicSheetLines(pdfs, 1)
                \o ByTopicLines(Tail(topics_data))

format_by_topic(sheets) ==
    << [kind |-> "by_topic"], [kind |-> "rule50"] >>
        \o ByTopicLines(Get(sheets, "topics", <<>>))

-----------------------------------------------------------------------------
(* fetch_practice_sheets and fetch_and_send_course_data *)

\* d[key] = value on a dict.
Put(d, key, value) == (key :> value) @@ d

\* An API response is the parsed JSON payload, or a record with the field
\* error when the request or the JSON parsing raised.
Raised(response) == "error" \in DOMAIN response

\* data.get('state') != 200 is false
StateOk(response) == "state" \in DOMAIN response /\ response.state = 200

\* Lines 308-310: the pdfs of a topic, each with its topic_name set.
RECURSIVE TaggedPdfs(_, _)
TaggedPdfs(pdfs, topic_name) ==
    IF pdfs = <<>> THEN <<>>
    ELSE <<Put(Head(pdfs), "topic_name", topic_name)>>
            \o TaggedPdfs(Tail(pdfs), topic_name)

\* Lines 304-310: all_pdfs.
RECURSIVE AllPdfs(_)
AllPdfs(topics) ==
    IF topics = <<>> THEN <<>>
    ELSE TaggedPdfs(Get(Head(topics), "pdfs", <<>>),
                    Get(Head(topics), "topicName", UnknownTopic))
            \o AllPdfs(Tail(topics))

\* The topics list after the loop: line 309 writes into the pdf dicts that
\* the topics hold.
RECURSIVE TaggedTopics(_)
TaggedTopics(topics) ==
    IF topics = <<>> THEN <<>>
    ELSE LET topic == Head(topics)
         IN  << IF "pdfs" \in DOMAIN topic
                THEN Put(topic, "pdfs",
                         TaggedPdfs(topic.pdfs,
                                    Get(topic, "topicName", UnknownTopic)))
                ELSE topic >>
                \o TaggedTopics(Tail(topics))

\* The value returned for a response of the pdfs endpoint; NoSheets is None.
fetch_practice_sheets(response) ==
    IF Raised(response) THEN NoSheets
    ELSE IF ~StateOk(response) THEN NoSheets
    ELSE LET topics == Get(Get(response, "data", EmptyDict), "topics", <<>>)
         IN  [topics |-> TaggedTopics(topics), pdfs |-> AllPdfs(topics)]

\* str.replace(' ', '_')
SpacesToUnderscores(s) == [i \in 1..Len(s) |-> IF s[i] = " " THEN "_" ELSE s[i]]

DotTxt == <<".", "t", "x", "t">>
UnknownError ==
    <<"U", "n", "k", "n", "o", "w", "n", " ", "e", "r", "r", "o", "r">>

TextMessage(text) == [kind |-> "text", text |-> text]

\* A sender that renders whatever the classes endpoint answered.
FetchAndSendAlwaysRender(course_title, quality, course_response, sheets_response) ==
    LET data == Get(course_response, "data", EmptyDict)
        sheets == fetch_practice_sheets(sheets_response)
    IN  << [kind |-> "document",
            filename |-> SpacesToUnderscores(course_title) \o DotTxt,
            title |-> course_title,
            quality |-> Upper(quality),
            sheets |-> Len(Get(sheets, "pdfs", <<>>)),
            lines |-> generate_formatted_text_file(
                          Get(data, "classes", <<>>), quality, sheets)] >>

\* Lines 215-278: the messages fetch_and_send_course_data replies with, for
\* the responses of the classes endpoint and of the pdfs endpoint.
fetch_and_send_course_data(course_title, quality, course_response, sheets_response) ==
    IF Raised(course_response)
    THEN << TextMessage(IF course_response.error = "network"
                        THEN "Network error fetching course data"
                        ELSE "Data format error from API") >>
    ELSE IF ~StateOk(course_response)
    THEN << [kind |-> "text", text |-> "API Error",
             msg |-> Get(course_response, "msg", UnknownError)] >>
    ELSE IF "data" \notin DOMAIN course_response
    THEN << TextMessage("Unexpected data format from API") >>
    ELSE LET topics == Get(course_response.data, "classes", <<>>)
             sheets == fetch_practice_sheets(sheets_response)
         IN  IF ~TruthyList(topics) /\ sheets = NoSheets
             THEN << TextMessage("No class data or practice sheets found") >>
             ELSE << [kind |-> "document",
                      filename |-> SpacesToUnderscores(course_title) \o DotTxt,
                      title |-> course_title,
                      quality |-> Upper(quality),
                      sheets |-> Len(Get(sheets, "pdfs", <<>>)),
                      lines |-> generate_formatted_text_file(
                                    topics, quality, sheets)] >>

-----------------------------------------------------------------------------
(* The bot after construction, lines 31-37 *)

Users == {"u1", "u2"}

BotInit ==
    /\ user_preferences = EmptyDict
    /\ available_courses = <<>>
    /\ user_data = [u \in Users |-> EmptyDict]
    /\ outbox = [to |-> "nobody", messages |-> <<>>]
    /\ chosen = [u \in Users |-> None]

-----------------------------------------------------------------------------
(* Inputs of the resolver *)

UrlA == HttpsPrefix \o <<"a">>
UrlB == HttpsPrefix \o <<"b">>
LinkHttps == HttpsPrefix \o <<"l">>
LinkHttp == HttpPrefix \o <<"l">>
LinkFtp == <<"f", "t", "p", ":", "/", "/", "l">>

\* Quality labels of recordings: the ladder, an upper-case spelling, a label
\* outside the ladder, and a recording without a quality key.
RecordingQualities ==
    {quality_priority[i] : i \in 1..Len(quality_priority)}
        \cup {<<"7", "2", "0", "P">>, <<"h", "d">>}

Recordings ==
    [quality : RecordingQualities, url : {UrlA, UrlB}] \cup [url : {UrlA, UrlB}]

RecordingLists == UNION {[1..n -> Recordings] : n \in 0..MaxRecs}

\* None is a class_link of null; the key may also be missing.
ClassLinks == {None, <<>>, LinkHttps, LinkHttp, LinkFtp}

RequestedQualities ==
    {quality_priority[i] : i \in 1..Len(quality_priority)}
        \cup {<<"7", "2", "0", "P">>, <<"4", "8", "0", "P">>, <<"h", "d">>, <<>>}

ResolverInputs ==
    [mp4Recordings : RecordingLists, class_link : ClassLinks]
        \cup [mp4Recordings : RecordingLists]
        \cup [class_link : ClassLinks]

-----------------------------------------------------------------------------
(* Specification of one call of get_preferred_video_url *)

InitResolve ==
    /\ pc = "call"
    /\ class_data \in ResolverInputs
    /\ preferred_quality \in RequestedQualities
    /\ video_url = None
    /\ classes_data = <<>>
    /\ practice_sheets = NoSheets
    /\ all_classes = <<>>
    /\ lines = <<>>
    /\ BotInit

GetPreferredVideoUrl ==
    /\ pc = "call"
    /\ video_url' = get_preferred_video_url(class_data, preferred_quality)
    /\ pc' = "return"
    /\ UNCHANGED <<class_data, preferred_quality, classes_data,
                   practice_sheets, all_classes, lines>>
    /\ UNCHANGED botvars

NextResolve == GetPreferredVideoUrl

SpecResolve == InitResolve /\ [][NextResolve]_vars

\* The class link of the call, None when the key is missing.
CallLink == Get(class_data, "class_link", None)

\* The recordings of the call, with a missing key read as the empty list.
CallRecordings == Get(class_data, "mp4Recordings", <<>>)

\* Some recording's quality equals the requested one ignoring letter case.
HasExact ==
    \E i \in 1..Len(CallRecordings) :
        Lower(Get(CallRecordings[i], "quality", <<>>)) = Lower(preferred_quality)

\* Ladder positions at or below the requested quality that some recording has.
LadderHits ==
    {i \in 1..Len(quality_priority) :
        /\ \E k \in 1..Len(quality_priority) :
              quality_priority[k] = Lower(preferred_quality) /\ k <= i
        /\ \E r \in 1..Len(CallRecordings) :
              Lower(Get(CallRecordings[r], "quality", <<>>)) = quality_priority[i]}

\* C1: for every non-empty recordings list and every requested quality the
\* resolver returns a URL, never nothing, whatever the class link is.
C1_Total ==
    (pc = "return" /\ Len(CallRecordings) > 0)
        => (video_url # None /\ StartsWithHttp(video_url))

C1_Witness ==
    /\ pc = "return"
    /\ Len(CallRecordings) > 0
    /\ ~HasExact
    /\ LadderHits = {}
    /\ CallLink = None
    /\ video_url # None

\* C2: with no exact match and the requested quality in the ladder, the
\* resolver returns the URL of a recording whose quality is the highest
\* ladder entry at or below the requested one present among the recordings.
C2_LadderDown ==
    (pc = "return" /\ ~HasExact /\ LadderHits # {})
        => LET best == CHOOSE i \in LadderHits : \A j \in LadderHits : i <= j
           IN  \E r \in 1..Len(CallRecordings) :
                  /\ Lower(Get(CallRecordings[r], "quality", <<>>))
                        = quality_priority[best]
                  /\ video_url = CallRecordings[r].url

\* recordings [480p -> A, 240p -> B] with requested 720p returns A
C2_Witness ==
    /\ pc = "return"
    /\ preferred_quality = quality_priority[2]
    /\ CallRecordings = << [quality |-> quality_priority[3], url |-> UrlA],
                           [quality |-> quality_priority[5], url |-> UrlB] >>
    /\ video_url = UrlA

\* C3: whenever some recording's quality equals the requested quality
\* ignoring letter case, the resolver returns the URL of the first such
\* recording in list order.
C3_ExactFirst ==
    (pc = "return" /\ HasExact)
        => \E i \in 1..Len(CallRecordings) :
              /\ Lower(Get(CallRecordings[i], "quality", <<>>))
                    = Lower(preferred_quality)
              /\ \A j \in 1..(i - 1) :
                    Lower(Get(CallRecordings[j], "quality", <<>>))
                        # Lower(preferred_quality)
              /\ video_url = CallRecordings[i].url

\* the exact match differs in letter case and stands behind a higher quality
C3_Witness ==
    /\ pc = "return"
    /\ preferred_quality = <<"4", "8", "0", "P">>
    /\ CallRecordings = << [quality |-> quality_priority[1], url |-> UrlA],
                           [quality |-> quality_priority[3], url |-> UrlB] >>
    /\ video_url = UrlB

\* C4: with an empty or absent recordings list the resolver returns the class
\* link unchanged when it starts with http:// or https:// and nothing
\* otherwise; with a non-empty list it returns a recording's URL, never the
\* class link.
C4_ClassLink ==
    pc = "return" =>
        /\ (Len(CallRecordings) = 0 /\ CallLink \in {LinkHttps, LinkHttp})
              => video_url = CallLink
        /\ (Len(CallRecordings) = 0 /\ CallLink \notin {LinkHttps, LinkHttp})
              => video_url = None
        /\ Len(CallRecordings) > 0
              => /\ video_url # CallLink
                 /\ \E r \in 1..Len(CallRecordings) :
                        video_url = CallRecordings[r].url

C4_Witness ==
    /\ pc = "return"
    /\ "mp4Recordings" \notin DOMAIN class_data
    /\ CallLink = LinkHttp
    /\ video_url = LinkHttp

\* C5: when recordings is non-empty and neither the exact match nor the
\* downward ladder walk finds a recording, the resolver returns the URL of the
\* first recording in list order.
C5_LastResort ==
    (pc = "return" /\ Len(CallRecordings) > 0 /\ ~HasExact /\ LadderHits = {})
        => video_url = CallRecordings[1].url

\* only a higher quality than the requested one exists, after another label
C5_Witness ==
    /\ pc = "return"
    /\ preferred_quality = quality_priority[4]
    /\ Len(CallRecordings) = 2
    /\ CallRecordings[1].url = UrlA
    /\ CallRecordings[2].url = UrlB
    /\ Get(CallRecordings[2], "quality", <<>>) = quality_priority[1]
    /\ ~HasExact
    /\ LadderHits = {}
    /\ video_url = UrlA

-----------------------------------------------------------------------------
(* Inputs of the generator *)

UrlP == HttpsPrefix \o <<"p">>
Q720 == quality_priority[2]
Q480 == quality_priority[3]

TopicNames == {<<"B">>, <<"a">>}

\* A class with an exact 720p recording and PDFs, one with a bad url.
ClassExact ==
    [title |-> <<"L", "5">>, teacherName |-> <<"T">>,
     mp4Recordings |-> << [quality |-> Q720, url |-> UrlA],
                          [quality |-> Q480, url |-> UrlB] >>,
     classPdf |-> << [name |-> <<"n">>, url |-> UrlP], [url |-> LinkFtp] >>]

\* A class with only a 480P recording and no teacher.
ClassFallback ==
    [title |-> <<"1", "2", "x", "3">>,
     mp4Recordings |-> << [quality |-> <<"4", "8", "0", "P">>, url |-> UrlB] >>]

\* A class with only a class link.
ClassLinkOnly ==
    [title |-> <<"1", "0", "0">>, teacherName |-> <<"T">>,
     class_link |-> LinkHttps]

\* A class with no video at all and no title.
ClassNoVideo == [teacherName |-> <<"T">>, class_link |-> None]

ClassRecords == {ClassExact, ClassFallback, ClassLinkOnly, ClassNoVideo}

ClassLists ==
    UNION {[1..n -> {ClassFallback, ClassLinkOnly, ClassNoVideo}] :
              n \in 0..MaxClasses}

\* Topics with a name, and one topic without the topicName key.
Topics ==
    [topicName : TopicNames, classes : ClassLists]
        \cup {[classes |-> <<ClassFallback>>]}

TopicLists == UNION {[1..n -> Topics] : n \in 0..MaxTopics}

TitleChars == {"L", "7", "0", " "}

Titles == UNION {[1..n -> TitleChars] : n \in 0..MaxTitleLen}

\* One topic with one class that has the given title and a 720p recording.
TitledClass(title) ==
    << [topicName |-> <<"B">>,
        classes |-> << [title |-> title,
                        mp4Recordings |-> << [quality |-> Q720, url |-> UrlA] >>] >>] >>

\* The same class without the title key.
UntitledClass ==
    << [topicName |-> <<"B">>,
        classes |-> << [mp4Recordings |-> << [quality |-> Q720, url |-> UrlA] >>] >>] >>

SheetRecords ==
    { [title |-> <<"S", "1">>, teacherName |-> <<"T">>, topic_name |-> <<"B">>,
       uploadPdf |-> UrlP, category |-> [categoryName |-> <<"M", "a", "t", "h", "s">>]],
      [title |-> <<"S", "2">>, topic_name |-> <<"B">>,
       uploadPdf |-> UrlP, category |-> [categoryName |-> <<"G", "K">>]],
      [title |-> <<"S", "3">>, topic_name |-> <<"a">>,
       uploadPdf |-> UrlA, category |-> [categoryName |-> <<"M", "a", "t", "h", "s">>]],
      [topic_name |-> UnknownTopic, uploadPdf |-> UrlP] }

SheetLists == UNION {[1..n -> SheetRecords] : n \in 0..MaxSheets}

\* The value of fetch_practice_sheets: None, or the topics and the flat list.
PracticeSheetsInputs ==
    {NoSheets} \cup [topics : {<<>>}, pdfs : SheetLists]

\* The calls of generate_formatted_text_file under study, each a triple of
\* classes_data, preferred_quality and practice_sheets.
GeneratorInputs ==
    (TopicLists \X {Q720} \X {NoSheets})
        \cup (({TitledClass(t) : t \in Titles} \cup {UntitledClass})
                \X {Q720} \X {NoSheets})
        \cup ({<<[topicName |-> <<"B">>, classes |-> <<c>>]>> : c \in ClassRecords}
                \X RequestedQualities \X {NoSheets})
        \cup ({<<>>, TitledClass(<<"L", "7">>)} \X {Q720} \X PracticeSheetsInputs)

-----------------------------------------------------------------------------
(* Specification of one call of generate_formatted_text_file *)

InitGenerate ==
    /\ pc = "call"
    /\ \E in \in GeneratorInputs :
          /\ classes_data = in[1]
          /\ preferred_quality = in[2]
          /\ practice_sheets = in[3]
    /\ class_data = [class_link |-> None]
    /\ video_url = None
    /\ all_classes = <<>>
    /\ lines = <<>>
    /\ BotInit

GenerateFormattedTextFile ==
    /\ pc = "call"
    /\ all_classes' = SortedClasses(classes_data, preferred_quality)
    /\ lines' = generate_formatted_text_file(classes_data, preferred_quality,
                                             practice_sheets)
    /\ pc' = "return"
    /\ UNCHANGED <<class_data, preferred_quality, video_url, classes_data,
                   practice_sheets>>
    /\ UNCHANGED botvars

\* format_by_category on the practice sheets, as sheets_callback calls it
\* (only with practice sheets that are not None).
FormatByCategory ==
    /\ pc = "call"
    /\ practice_sheets # NoSheets
    /\ lines' = format_by_category(practice_sheets)
    /\ pc' = "return_by_category"
    /\ UNCHANGED <<class_data, preferred_quality, video_url, classes_data,
                   practice_sheets, all_classes>>
    /\ UNCHANGED botvars

NextGenerate == GenerateFormattedTextFile \/ FormatByCategory

SpecGenerate == InitGenerate /\ [][NextGenerate]_vars

\* The class records of the input, as pairs of topic and class position.
InputClasses ==
    UNION {{<<t, c>> : c \in 1..Len(Get(classes_data[t], "classes", <<>>))} :
              t \in 1..Len(classes_data)}

InputClass(tc) == Get(classes_data[tc[1]], "classes", <<>>)[tc[2]]

\* The topic names of the input.
InputTopicNames ==
    {Get(classes_data[t], "topicName", UnknownTopic) : t \in 1..Len(classes_data)}

LinesOfKind(kind) == SelectSeq(lines, LAMBDA l : l.kind = kind)

\* The position in the document of the i-th line of a kind.
PositionOf(kind, i) ==
    CHOOSE p \in 1..Len(lines) :
        /\ lines[p].kind = kind
        /\ Cardinality({q \in 1..p : lines[q].kind = kind}) = i

\* The topic header in force at a position of the document.
HeaderAt(p) ==
    LET q == CHOOSE q \in 1..p :
                /\ lines[q].kind = "topic"
                /\ \A r \in (q + 1)..p : lines[r].kind # "topic"
    IN  lines[q].text

\* C6: every class record of the input is retained in the rendered document,
\* also a class whose video resolves to no URL.
C6_AllRetained ==
    pc = "return" => Len(LinesOfKind("class")) = Cardinality(InputClasses)

\* C7: the number of topic section headers in the document equals the number
\* of distinct topic names in the input topic list.
C7_HeaderCount ==
    pc = "return" => Len(LinesOfKind("topic")) = Cardinality(InputTopicNames)

\* Lexical order of strings by code point, stated by the first difference.
LexLeq(a, b) ==
    \/ a = b
    \/ \E k \in 1..Len(b) :
          /\ k <= Len(a) + 1
          /\ \A j \in 1..(k - 1) : a[j] = b[j]
          /\ (k = Len(a) + 1 \/ Ord(a[k]) < Ord(b[k]))

\* C8: classes appear in the document in non-decreasing order of the pair
\* (topic name, class number), both compared as case-sensitive strings,
\* whatever the order of topics and classes in the input.
C8_Sorted ==
    pc = "return" =>
        /\ Len(LinesOfKind("class")) = Len(all_classes)
        /\ \A i \in 1..Len(all_classes) :
              /\ LinesOfKind("class")[i].number = all_classes[i].class_number
              /\ LinesOfKind("class")[i].title = all_classes[i].class_title
              /\ HeaderAt(PositionOf("class", i)) = Upper(all_classes[i].topic_name)
        /\ \A i \in 1..(Len(all_classes) - 1) :
              LET x == all_classes[i]
                  y == all_classes[i + 1]
              IN  /\ LexLeq(x.topic_name, y.topic_name)
                  /\ x.topic_name = y.topic_name
                        => LexLeq(x.class_number, y.class_number)

\* the input has topic a before topic B and class 12 before class 100, and
\* the document has B before a and 100 before 12
C8_Witness ==
    /\ pc = "return"
    /\ Len(classes_data) = 2
    /\ Get(classes_data[1], "topicName", UnknownTopic) = <<"a">>
    /\ Get(classes_data[2], "topicName", UnknownTopic) = <<"B">>
    /\ Len(all_classes) = 3
    /\ all_classes[1].topic_name = <<"B">>
    /\ all_classes[2].topic_name = <<"a">>
    /\ all_classes[2].class_number = <<"1", "0", "0">>
    /\ all_classes[3].class_number = <<"1", "2">>
    /\ Get(classes_data[1], "classes", <<>>)[1].title = <<"1", "2", "x", "3">>

\* C9: the class number rendered for a class is the first run of digits of
\* its title, left-padded with zeros to at least 2 digits, and is "01" when
\* the title is missing, empty or has no digit.
C9_ClassNumber ==
    pc = "return" =>
        \A i \in 1..Len(LinesOfKind("class")) :
            LET l == LinesOfKind("class")[i]
                t == l.title
            IN  IF \A k \in 1..Len(t) : t[k] \notin Digits
                THEN l.number = <<"0", "1">>
                ELSE \E a \in 1..Len(t) : \E b \in a..Len(t) :
                        /\ \A k \in 1..(a - 1) : t[k] \notin Digits
                        /\ \A k \in a..b : t[k] \in Digits
                        /\ (b = Len(t) \/ t[b + 1] \notin Digits)
                        /\ l.number = IF b = a THEN <<"0">> \o SubSeq(t, a, b)
                                      ELSE SubSeq(t, a, b)

\* a title with two runs of digits: the first, one digit long, is padded
C9_Witness ==
    /\ pc = "return"
    /\ \E i \in 1..Len(lines) :
          /\ lines[i].kind = "class"
          /\ lines[i].title = <<"7", " ", "0">>
          /\ lines[i].number = <<"0", "7">>

\* C10: the quality label of the document is the quality of the recording
\* selected for each class, not the requested quality.
C10_LabelIsSelected ==
    pc = "return" =>
        \A tc \in InputClasses :
            LET k == PreferredIndex(InputClass(tc), preferred_quality)
            IN  k # 0 =>
                  \A i \in 1..Len(lines) :
                      lines[i].kind = "quality" =>
                          lines[i].text =
                              Upper(Get(Get(InputClass(tc), "mp4Recordings", <<>>)[k],
                                        "quality", <<>>))

\* The topic list of the parsed course payload has a topic with no class.
EmptyTopics ==
    {t \in 1..Len(classes_data) : Get(classes_data[t], "classes", <<>>) = <<>>}

\* C14: a topic of the input with zero classes and zero practice sheets is
\* still rendered: its header is in the document, followed by an explicit
\* "no content available" line.
C14_EmptyTopicRendered ==
    (pc = "return" /\ Get(practice_sheets, "pdfs", <<>>) = <<>>)
        => \A t \in EmptyTopics :
              \E p \in 1..Len(lines) :
                  /\ lines[p].kind = "topic"
                  /\ lines[p].text
                        = Upper(Get(classes_data[t], "topicName", UnknownTopic))
                  /\ \E q \in (p + 1)..Len(lines) : lines[q].kind = "no_content"

\* The flattened practice-sheet list of the call.
CallSheets == Get(practice_sheets, "pdfs", <<>>)

\* The categoryName of a sheet, 'Unknown' when absent.
CategoryOf(pdf) ==
    IF "category" \in DOMAIN pdf /\ "categoryName" \in DOMAIN pdf.category
    THEN pdf.category.categoryName
    ELSE Unknown

\* The i-th smallest element of a set of numbers.
Nth(S, i) == CHOOSE x \in S : Cardinality({y \in S : y <= x}) = i

\* The positions of the sheets that are the first of their category.
FirstOfCategory ==
    {p \in 1..Len(CallSheets) :
        \A q \in 1..(p - 1) : CategoryOf(CallSheets[q]) # CategoryOf(CallSheets[p])}

\* The positions of the sheets of the j-th category, in first-occurrence order.
SheetsOfCategory(j) ==
    {p \in 1..Len(CallSheets) :
        CategoryOf(CallSheets[p]) = CategoryOf(CallSheets[Nth(FirstOfCategory, j)])}

\* The positions of the sheet lines under the j-th category header.
SheetLinesUnder(j) ==
    LET n == Len(LinesOfKind("category"))
        from == PositionOf("category", j)
        to == IF j < n THEN PositionOf("category", j + 1) ELSE Len(lines) + 1
    IN  {p \in from..(to - 1) : lines[p].kind = "sheet"}

\* C15: in the practice-sheets section of the course document and in
\* format_by_category, every sheet of the flattened list appears exactly once,
\* under the header of its own categoryName ('Unknown' when absent);
\* categories appear in order of first occurrence, sheets keep their input
\* order within a category and are numbered from 1 in each category.
C15_ByCategory ==
    (pc \in {"return", "return_by_category"})
        => /\ Len(LinesOfKind("sheet")) = Len(CallSheets)
           /\ Len(LinesOfKind("category")) = Cardinality(FirstOfCategory)
           /\ \A j \in 1..Cardinality(FirstOfCategory) :
                 /\ lines[PositionOf("category", j)].text
                       = Upper(CategoryOf(CallSheets[Nth(FirstOfCategory, j)]))
                 /\ Cardinality(SheetLinesUnder(j))
                       = Cardinality(SheetsOfCategory(j))
                 /\ \A i \in 1..Cardinality(SheetsOfCategory(j)) :
                       LET l == lines[Nth(SheetLinesUnder(j), i)]
                           pdf == CallSheets[Nth(SheetsOfCategory(j), i)]
                       IN  /\ l.number = i
                           /\ l.title = Get(pdf, "title", Untitled)

\* the sheets S1 (Maths), S2 (GK), S3 (Maths) are rendered by the course
\* document as S1, S3 under MATHS and then S2 under GK
C15_Witness ==
    /\ pc = "return"
    /\ Len(CallSheets) = 3
    /\ Get(CallSheets[1], "title", Untitled) = <<"S", "1">>
    /\ Get(CallSheets[2], "title", Untitled) = <<"S", "2">>
    /\ Get(CallSheets[3], "title", Untitled) = <<"S", "3">>
    /\ Len(LinesOfKind("category")) = 2
    /\ LinesOfKind("category")[1].text = <<"M", "A", "T", "H", "S">>
    /\ LinesOfKind("sheet")[2].title = <<"S", "3">>
    /\ LinesOfKind("sheet")[2].number = 2
    /\ LinesOfKind("sheet")[3].title = <<"S", "2">>
    /\ LinesOfKind("sheet")[3].number = 1

\* The text lines of the i-th class of the document: from its class line to
\* the blank line that ends it.
ClassText(i) ==
    LET from == PositionOf("class", i)
        to == CHOOSE q \in from..Len(lines) :
                /\ lines[q].kind = "blank"
                /\ \A r \in from..(q - 1) : lines[r].kind # "blank"
    IN  [k \in 1..(to - from) |-> LineText(lines[from + k - 1])]

\* The text of the specification's own scenario parses to class 05 of topic
\* Algebra with its video and PDF urls.
ScenarioText ==
    << ClassDash \o <<"0", "5", " ", "|", "|", " ", "A", " ", "|", "|", " ",
                      "A", "l", "g", " ", "|", " ", "N", " ", ":", " ">>
            \o HttpsPrefix \o <<"x", "/", "v">>,
       HttpsPrefix \o <<"x", "/", "p", "d", "f", "s", "/", "f", "i", "l", "e",
                        "s", "/", "a", ".", "p", "d", "f">> >>

ScenarioParsed ==
    ParseText(ScenarioText)
        = << [classNumber |-> <<"0", "5">>,
              topicName |-> <<"A", "l", "g">>,
              url |-> HttpsPrefix \o <<"x", "/", "v">>,
              pdfs |-> << HttpsPrefix \o <<"x", "/", "p", "d", "f", "s", "/", "f",
                                          "i", "l", "e", "s", "/", "a", ".", "p",
                                          "d", "f">> >>] >>

\* C13: feeding the class and PDF lines that the renderer emits for a class
\* to the Text Corpus Parser recovers the class number, the topic name and
\* the set of URLs the class was rendered from.
C13_RoundTrip ==
    pc = "return" =>
        /\ ScenarioParsed
        /\ \A i \in 1..Len(all_classes) :
              LET parsed == ParseText(ClassText(i))
                  c == all_classes[i]
              IN  /\ Len(parsed) = 1
                  /\ parsed[1].classNumber = c.class_number
                  /\ parsed[1].topicName = c.topic_name
                  /\ {parsed[1].url} \cup {parsed[1].pdfs[k] : k \in 1..Len(parsed[1].pdfs)}
                        = {c.video_url} \cup {c.pdfs[k].url : k \in 1..Len(c.pdfs)}

-----------------------------------------------------------------------------
(* Inputs of the handlers: what the users press and what the API answers *)

CourseIdA == <<"c", "1">>
CourseIdB == <<"c", "2">>
CourseA == [id |-> CourseIdA, title |-> <<"A", " ", "x">>]
CourseB == [id |-> CourseIdB, title |-> <<"B">>]

\* The qualities of the buttons of lines 678-688.
QualityButtons == {quality_priority[i] : i \in 1..Len(quality_priority)}

\* The course_<index> buttons: two courses, and an index no list has.
CourseButtons == 0..2

SheetButtons == {"all", "category", "maths", "topics"}

NetworkError == [error |-> "network"]

\* Answers of the courses endpoint, by name.
CatalogueAnswers == {"network", "error state", "no courses", "courses"}

CatalogueResponse(answer) ==
    CASE answer = "network" -> NetworkError
      [] answer = "error state" -> [state |-> 500, msg |-> <<"d", "o", "w", "n">>]
      [] answer = "no courses" -> [state |-> 200, data |-> <<>>]
      [] OTHER -> [state |-> 200, data |-> <<CourseA, CourseB>>]

\* The topics of a course in the classes payload.
CourseTopics(course_id) ==
    IF course_id = CourseIdA
    THEN << [topicName |-> <<"B">>, classes |-> <<ClassFallback>>] >>
    ELSE << [topicName |-> <<"a">>, classes |-> <<ClassLinkOnly>>] >>

\* Answers of the classes endpoint of a course, by name.
CourseAnswers ==
    {"network", "json", "error state", "error state without msg", "no data",
     "no topics", "topics"}

CourseResponse(course_id, answer) ==
    CASE answer = "network" -> NetworkError
      [] answer = "json" -> [error |-> "json"]
      [] answer = "error state" -> [state |-> 500, msg |-> <<"d", "o", "w", "n">>]
      [] answer = "error state without msg" -> [state |-> 500]
      [] answer = "no data" -> [state |-> 200]
      [] answer = "no topics" -> [state |-> 200, data |-> [classes |-> <<>>]]
      [] OTHER -> [state |-> 200, data |-> [classes |-> CourseTopics(course_id)]]

\* The topics of a course in the pdfs payload: each course has its own sheets.
SheetTopics(course_id) ==
    IF course_id = CourseIdA
    THEN << [topicName |-> <<"B">>,
             pdfs |-> << [title |-> <<"S", "1">>, teacherName |-> <<"T">>,
                          uploadPdf |-> UrlP,
                          category |-> [categoryName |-> <<"M", "a", "t", "h", "s">>]],
                         [title |-> <<"S", "2">>, uploadPdf |-> UrlP,
                          category |-> [categoryName |-> <<"G", "K">>]] >>] >>
    ELSE << [topicName |-> <<"a">>,
             pdfs |-> << [title |-> <<"S", "3">>, uploadPdf |-> UrlA,
                          category |-> [categoryName |-> <<"M", "a", "t", "h", "s">>]] >>] >>

\* Answers of the pdfs endpoint of a course, by name.
SheetAnswers == {"network", "error state", "no sheets", "sheets"}

SheetResponse(course_id, answer) ==
    CASE answer = "network" -> NetworkError
      [] answer = "error state" -> [state |-> 500, msg |-> <<"d", "o", "w", "n">>]
      [] answer = "no sheets" -> [state |-> 200, data |-> [topics |-> <<>>]]
      [] OTHER -> [state |-> 200, data |-> [topics |-> SheetTopics(course_id)]]

-----------------------------------------------------------------------------
(* The handlers. PTB handles one update at a time, each handler to its end. *)

Send(u, messages) == outbox' = [to |-> u, messages |-> messages]

\* self.user_preferences.get(user_id, "720p")
PreferenceOf(u) == Get(user_preferences, u, Q720)

\* A /start that resets the preference to 720p.
StartCommandOverwrite(u) ==
    /\ user_preferences' = Put(user_preferences, u, Q720)
    /\ Send(u, << [kind |-> "text", text |-> "welcome", quality |-> Q720] >>)
    /\ UNCHANGED <<available_courses, user_data, chosen>>
    /\ UNCHANGED callvars

\* Lines 51-75
StartCommand(u) ==
    /\ user_preferences' =
          IF u \notin DOMAIN user_preferences
          THEN Put(user_preferences, u, Q720)
          ELSE user_preferences
    /\ Send(u, << [kind |-> "text", text |-> "welcome",
                   quality |-> user_preferences'[u]] >>)
    /\ UNCHANGED <<available_courses, user_data, chosen>>
    /\ UNCHANGED callvars

\* Lines 696-706
QualityCallback(u, quality) ==
    /\ user_preferences' = Put(user_preferences, u, quality)
    /\ chosen' = [chosen EXCEPT ![u] = quality]
    /\ Send(u, << [kind |-> "text", text |-> "quality set",
                   quality |-> Upper(quality)] >>)
    /\ UNCHANGED <<available_courses, user_data>>
    /\ UNCHANGED callvars

\* Lines 105-156
BatchesCommand(u, answer) ==
    LET response == CatalogueResponse(answer)
    IN
    /\ IF Raised(response)
       THEN /\ Send(u, << TextMessage("Fetching available batches"),
                          TextMessage("Network error fetching batches") >>)
            /\ UNCHANGED <<available_courses, user_data>>
       ELSE IF ~StateOk(response)
       THEN /\ Send(u, << TextMessage("Fetching available batches"),
                          [kind |-> "text", text |-> "API Error",
                           msg |-> Get(response, "msg", UnknownError)] >>)
            /\ UNCHANGED <<available_courses, user_data>>
       ELSE IF ~TruthyList(Get(response, "data", <<>>))
       THEN /\ Send(u, << TextMessage("Fetching available batches"),
                          TextMessage("No batches found") >>)
            /\ UNCHANGED <<available_courses, user_data>>
       ELSE /\ available_courses' = response.data
            /\ user_data' = [user_data EXCEPT
                                ![u] = Put(@, "available_courses", response.data)]
            /\ Send(u, << TextMessage("Fetching available batches"),
                          [kind |-> "keyboard", text |-> "Available Batches",
                           buttons |-> Len(response.data)] >>)
    /\ UNCHANGED <<user_preferences, chosen>>
    /\ UNCHANGED callvars

\* Lines 158-185
CourseCallback(u, course_index, course_answer, sheets_answer) ==
    LET courses == Get(user_data[u], "available_courses", <<>>)
    IN  /\ IF ~TruthyList(courses) \/ course_index >= Len(courses)
           THEN /\ Send(u, << TextMessage("Course not found") >>)
                /\ UNCHANGED user_data
           ELSE LET selected_course == courses[course_index + 1]
                    course_id == Get(selected_course, "id", None)
                    course_title == Get(selected_course, "title", UnknownCourse)
                IN  /\ user_data' = [user_data EXCEPT
                          ![u] = Put(Put(@, "selected_course_id", course_id),
                                     "selected_course_title", course_title)]
                    /\ Send(u, << [kind |-> "text", text |-> "Selected",
                                   title |-> course_title] >>
                               \o fetch_and_send_course_data(
                                     course_title, PreferenceOf(u),
                                     CourseResponse(course_id, course_answer),
                                     SheetResponse(course_id, sheets_answer)))
        /\ UNCHANGED <<user_preferences, available_courses, chosen>>
        /\ UNCHANGED callvars

\* Lines 187-207
GetCourseCommand(u, course_answer, sheets_answer) ==
    LET quality == PreferenceOf(u)
        course_id == Get(user_data[u], "selected_course_id", None)
        course_title == Get(user_data[u], "selected_course_title", UnknownCourse)
    IN  /\ IF ~Truthy(course_id)
           THEN Send(u, << TextMessage("No course selected") >>)
           ELSE Send(u, << [kind |-> "text", text |-> "Fetching data for",
                            title |-> course_title,
                            quality |-> Upper(quality)] >>
                        \o fetch_and_send_course_data(
                              course_title, quality,
                              CourseResponse(course_id, course_answer),
                              SheetResponse(course_id, sheets_answer)))
        /\ UNCHANGED <<user_preferences, available_courses, user_data, chosen>>
        /\ UNCHANGED callvars

\* Lines 326-379
SheetsCommand(u, sheets_answer) ==
    LET course_id == Get(user_data[u], "selected_course_id", None)
        course_title == Get(user_data[u], "selected_course_title", UnknownCourse)
        fetching == [kind |-> "text", text |-> "Fetching practice sheets for",
                     title |-> course_title]
    IN  /\ IF ~Truthy(course_id)
           THEN /\ Send(u, << TextMessage("No course selected") >>)
                /\ UNCHANGED user_data
           ELSE    LET sheets == fetch_practice_sheets(
                                     SheetResponse(course_id, sheets_answer))
                   IN  IF sheets = NoSheets \/ ~TruthyList(Get(sheets, "pdfs", <<>>))
                       THEN /\ Send(u, << fetching,
                                          TextMessage("No practice sheets found") >>)
                            /\ UNCHANGED user_data
                       ELSE /\ Send(u, << fetching,
                                          [kind |-> "keyboard",
                                           text |-> "Found practice sheets",
                                           total |-> Len(sheets.pdfs),
                                           categories |->
                                              {CategoryName(sheets.pdfs[i]) :
                                                  i \in 1..Len(sheets.pdfs)}] >>)
                            /\ user_data' = [user_data EXCEPT
                                  ![u] = Put(@, "practice_sheets", sheets)]
        /\ UNCHANGED <<user_preferences, available_courses, chosen>>
        /\ UNCHANGED callvars

PracticeSheetsSuffix ==
    <<"_", "P", "r", "a", "c", "t", "i", "c", "e", "_", "S", "h", "e", "e",
      "t", "s">> \o DotTxt

\* Lines 381-422
SheetsCallback(u, action) ==
    LET sheets == Get(user_data[u], "practice_sheets", EmptyDict)
        course_title == Get(user_data[u], "selected_course_title", UnknownCourse)
    IN  /\ IF DOMAIN sheets = {}
           THEN Send(u, << TextMessage("Practice sheets data not found") >>)
           ELSE Send(u, << [kind |-> "text", text |-> "Generating format",
                            format |-> action],
                           [kind |-> "sheets_document",
                            filename |-> SpacesToUnderscores(course_title)
                                            \o PracticeSheetsSuffix,
                            title |-> course_title,
                            format |-> action,
                            lines |-> CASE action = "all" ->
                                              format_all_sheets(sheets)
                                        [] action = "category" ->
                                              format_by_category(sheets)
                                        [] action = "maths" ->
                                              format_maths_only(sheets)
                                        [] action = "topics" ->
                                              format_by_topic(sheets)
                                        [] OTHER -> format_all_sheets(sheets)] >>)
        /\ UNCHANGED <<user_preferences, available_courses, user_data, chosen>>
        /\ UNCHANGED callvars

-----------------------------------------------------------------------------
(* Specifications of the bot under the commands and buttons of its users *)

InitBot ==
    /\ pc = "polling"
    /\ class_data = [class_link |-> None]
    /\ preferred_quality = Q720
    /\ video_url = None
    /\ classes_data = <<>>
    /\ practice_sheets = NoSheets
    /\ all_classes = <<>>
    /\ lines = <<>>
    /\ BotInit

\* Two users send /start, press quality buttons, list the batches, select
\* courses and request the selected course; the API fails or answers in full.
NextQuality ==
    \/ \E u \in Users : StartCommand(u)
    \/ \E u \in Users : \E quality \in QualityButtons : QualityCallback(u, quality)
    \/ \E u \in Users : \E answer \in {"network", "courses"} :
          BatchesCommand(u, answer)
    \/ \E u \in Users : \E course_index \in CourseButtons :
       \E course_answer \in {"network", "topics"} :
       \E sheets_answer \in {"network", "sheets"} :
          CourseCallback(u, course_index, course_answer, sheets_answer)
    \/ \E u \in Users :
       \E course_answer \in {"network", "topics"} :
       \E sheets_answer \in {"network", "sheets"} :
          GetCourseCommand(u, course_answer, sheets_answer)

SpecQuality == InitBot /\ [][NextQuality]_vars

\* One user lists the batches, selects and requests courses, asks for the
\* practice sheets and presses the format buttons; the API answers in every
\* way.
NextCourse ==
    \/ \E answer \in CatalogueAnswers : BatchesCommand("u1", answer)
    \/ \E course_index \in CourseButtons :
       \E course_answer \in CourseAnswers : \E sheets_answer \in SheetAnswers :
          CourseCallback("u1", course_index, course_answer, sheets_answer)
    \/ \E course_answer \in CourseAnswers : \E sheets_answer \in SheetAnswers :
          GetCourseCommand("u1", course_answer, sheets_answer)
    \/ \E sheets_answer \in SheetAnswers : SheetsCommand("u1", sheets_answer)
    \/ \E action \in SheetButtons : SheetsCallback("u1", action)

SpecCourse == InitBot /\ [][NextCourse]_vars

\* The name of the last message a handler sent.
LastMessage(box) == box.messages[Len(box.messages)]

SentDocument(box) ==
    \E i \in 1..Len(box.messages) : box.messages[i].kind = "document"

\* A course request of user u1 that reaches the classes endpoint, with the
\* given answers of the two endpoints.
CourseRequest(course_answer, sheets_answer) ==
    \/ /\ Truthy(Get(user_data["u1"], "selected_course_id", None))
       /\ GetCourseCommand("u1", course_answer, sheets_answer)
    \/ \E course_index \in CourseButtons :
          /\ course_index < Len(Get(user_data["u1"], "available_courses", <<>>))
          /\ CourseCallback("u1", course_index, course_answer, sheets_answer)

\* C11: when the course payload has a state other than 200 or no data key,
\* fetch_and_send_course_data renders and sends no document and replies with
\* an error message, for a non-200 state with the upstream msg text.
C11_ErrorNoDocument ==
    [][\A sheets_answer \in SheetAnswers :
          /\ CourseRequest("error state", sheets_answer)
                => /\ ~SentDocument(outbox')
                   /\ LastMessage(outbox') =
                         [kind |-> "text", text |-> "API Error",
                          msg |-> <<"d", "o", "w", "n">>]
          /\ CourseRequest("error state without msg", sheets_answer)
                => /\ ~SentDocument(outbox')
                   /\ LastMessage(outbox') =
                         [kind |-> "text", text |-> "API Error",
                          msg |-> UnknownError]
          /\ CourseRequest("no data", sheets_answer)
                => /\ ~SentDocument(outbox')
                   /\ LastMessage(outbox')
                         = TextMessage("Unexpected data format from API")]_vars

\* /get_course of the selected course A x was answered with state 500 and
\* the msg "down"
C11_Witness ==
    /\ Len(outbox.messages) = 2
    /\ outbox.messages[1].text = "Fetching data for"
    /\ outbox.messages[1].title = <<"A", " ", "x">>
    /\ outbox.messages[2] = [kind |-> "text", text |-> "API Error",
                              msg |-> <<"d", "o", "w", "n">>]

\* The quality a user most recently chose by button, 720p without a choice.
ChoiceOf(u) == IF chosen[u] = None THEN Q720 ELSE chosen[u]

\* C12: the quality used to generate a user's course document is the quality
\* that user most recently chose through quality_callback, or 720p if the
\* user never chose one; /start never overwrites a choice and one user's
\* choice never changes the quality used for another user.
C12_OwnQuality ==
    /\ \A u \in DOMAIN user_preferences : user_preferences[u] = ChoiceOf(u)
    /\ \A i \in 1..Len(outbox.messages) :
          LET m == outbox.messages[i]
          IN  /\ m.kind = "document" =>
                    /\ m.quality = Upper(ChoiceOf(outbox.to))
                    /\ \A k \in 1..Len(m.lines) :
                          m.lines[k].kind = "quality"
                              => m.lines[k].text = Upper(ChoiceOf(outbox.to))
              /\ (m.kind = "text" /\ m.text = "welcome")
                    => m.quality = ChoiceOf(outbox.to)

\* u1 chose 480p, u2 chose 1080p, and the document sent to u1 uses 480P
C12_Witness ==
    /\ outbox.to = "u1"
    /\ chosen["u1"] = Q480
    /\ chosen["u2"] = quality_priority[1]
    /\ "u2" \in DOMAIN user_preferences
    /\ SentDocument(outbox)
    /\ LastMessage(outbox).quality = <<"4", "8", "0", "P">>

\* C16: if the practice-sheet fetch fails or returns a non-200 state while
\* the course has topics, the course document is still sent, without a
\* practice-sheets section; if the topic list is empty and there are no
\* practice sheets, no document is sent and a 'no data found' message is
\* replied.
C16_OptionalSheets ==
    [][/\ \A sheets_answer \in {"network", "error state"} :
             CourseRequest("topics", sheets_answer)
                => /\ LastMessage(outbox').kind = "document"
                   /\ \A k \in 1..Len(LastMessage(outbox').lines) :
                         LastMessage(outbox').lines[k].kind # "practice_sheets"
       /\ \A sheets_answer \in {"network", "error state", "no sheets"} :
             CourseRequest("no topics", sheets_answer)
                => /\ ~SentDocument(outbox')
                   /\ LastMessage(outbox')
                         = TextMessage("No class data or practice sheets found")]_vars

\* The titles of the sheets of a list of lines.
SheetTitles(doc) == {doc[k].title : k \in {j \in 1..Len(doc) : doc[j].kind = "sheet"}}

\* The titles of the practice sheets the API has for a course.
CourseSheetTitles(course_id) ==
    LET pdfs == AllPdfs(SheetTopics(course_id))
    IN  {Get(pdfs[k], "title", Untitled) : k \in 1..Len(pdfs)}

\* C17: every practice-sheets file sent by sheets_callback contains sheets
\* that were fetched for the course whose title names the file and its
\* caption.
C17_SheetsOfTitledCourse ==
    \A i \in 1..Len(outbox.messages) :
        LET m == outbox.messages[i]
        IN  m.kind = "sheets_document" =>
                \E course \in {CourseA, CourseB} :
                    /\ m.title = course.title
                    /\ m.filename = SpacesToUnderscores(course.title)
                                        \o PracticeSheetsSuffix
                    /\ SheetTitles(m.lines) \subseteq CourseSheetTitles(course.id)

====
